---- MODULE Spec2Model ----
(***************************************************************************)
(* Model of Speaker_classification.ipynb: the training loop with its       *)
(* validation passes and best-checkpoint selection, the learning-rate      *)
(* schedule, batch collation, and the inference loop.                      *)
(*                                                                         *)
(* The encoder, the loss and the optimizer arithmetic are opaque: a        *)
(* parameter tensor is an abstract value in ParamVals, a per-batch         *)
(* accuracy is a number of correct predictions out of batch_size, and an   *)
(* arg-max prediction is any class id.  Accuracies are kept as exact       *)
(* fractions [num, den].                                                   *)
(***************************************************************************)
EXTENDS Integers, Sequences, FiniteSets, TLC

\* ------------------------------------------------------------------ bounds
MaxTotalSteps == 3
MaxValidSteps == 2
MaxSaveSteps == 2
MaxWarmupSteps == 2
MaxBatchSize == 2
MaxDatasetLen == 21
MaxParam == 1

VARIABLES
  \* training run (main, training cell)
  config,            \* the keyword arguments of main
  pc,                \* position of the control flow of main
  error,             \* the exception that aborted the run, or "None"
  step,              \* the loop variable of `for step in range(total_steps)`
  train_left,        \* batches the current train_iterator can still yield
  n_restarts,        \* how often train_iterator was re-created (history)
  params,            \* the tensors of model.parameters()
  grads,             \* TRUE while gradients are accumulated on the parameters
  training,          \* model.training, the mode flag
  opt_steps,         \* optimizer steps applied (AdamW's step count)
  last_epoch,        \* scheduler.last_epoch
  lr_factor,         \* lr_lambda(last_epoch), in units of 1/FloatScale
  best_accuracy,     \* best_accuracy
  best_state_dict,   \* best_state_dict: "None" or a reference to tensors
  valid_i,           \* batches of valid_loader iterated in the current pass
  running_accuracy,  \* sum of the per-batch accuracies, as correct counts
  evaluated,         \* held-out records evaluated in the current pass, in order
  valid_accuracy,    \* value returned by the last call of valid
  torch_saved,       \* the torch.save calls made so far, in order
  \* history variables of the training run
  best_snapshot,     \* <<params>> as they were when best_state_dict was last assigned
  best_set_at,       \* step+1 of the validation that last assigned best_state_dict
  max_seen,          \* greatest validation accuracy returned so far
  n_valid,           \* completed validation passes
  valid_entry,       \* training state on entry to the current validation pass
  \* learning-rate schedule on its own (get_cosine_schedule_with_warmup)
  num_warmup_steps,  \* num_warmup_steps
  num_training_steps,\* num_training_steps
  current_step,      \* the scheduler's last_epoch, handed to lr_lambda
  rate,              \* lr_lambda(current_step), in units of 1/FloatScale
  \* collate_batch
  batch,             \* the list of (mel, speaker) pairs handed to collate_batch
  collated,          \* the outcome of collate_batch(batch), pending before the call
  \* inference run (main, inference cell)
  testdata,          \* testdata.json "utterances": the feature paths, in order
  id2speaker,        \* mapping.json "id2speaker"
  infer_pc,          \* position of the control flow of the inference main
  infer_error,       \* the exception that aborted the inference, or "None"
  infer_i,           \* batches of the inference dataloader consumed
  infer_preds,       \* the arg-max ids produced so far, in order (history)
  results,           \* results
  output_csv,        \* the rows written to output_path, none before the write
  \* myDataset.__getitem__
  segment_len,       \* self.segment_len
  record,            \* self.data[index] with the mel stored at its feature path
  item               \* the outcome of __getitem__(index), pending before the call

trainVars == <<config, pc, error, step, train_left, n_restarts, params, grads,
               training, opt_steps, last_epoch, lr_factor, best_accuracy,
               best_state_dict, valid_i, running_accuracy, evaluated,
               valid_accuracy, torch_saved, best_snapshot, best_set_at,
               max_seen, n_valid, valid_entry>>

rateVars == <<num_warmup_steps, num_training_steps, current_step, rate>>
collateVars == <<batch, collated>>
inferVars == <<testdata, id2speaker, infer_pc, infer_error, infer_i, infer_preds,
               results, output_csv>>

getitemVars == <<segment_len, record, item>>

vars == <<trainVars, rateVars, collateVars, inferVars, getitemVars>>
notTrainVars == <<rateVars, collateVars, inferVars, getitemVars>>

\* ------------------------------------------------------------- fractions
Rat(n, d) == [num |-> n, den |-> d]
RatLT(a, b) == a.num * b.den < b.num * a.den
RatEQ(a, b) == a.num * b.den = b.num * a.den
RatMax(a, b) == IF RatLT(a, b) THEN b ELSE a
Unbound == Rat(0, 0)

Max(a, b) == IF a >= b THEN a ELSE b

\* ------------------------------------------------- learning-rate schedule
\* Fixed-point resolution of the float values of lr_lambda.
FloatScale == 10000
PiScaled == 31416

\* cos(y) for 0 <= y <= pi/2, y and the result in units of 1/FloatScale.
CosSeries(y) ==
  LET y2 == (y * y) \div FloatScale
      t1 == y2 \div 2
      t2 == (y2 * y2) \div (24 * FloatScale)
      t3 == (t2 * y2) \div (30 * FloatScale)
      t4 == (t3 * y2) \div (56 * FloatScale)
  IN  FloatScale - t1 + t2 - t3 + t4

\* math.cos(math.pi * p / q), q > 0, p >= 0, in units of 1/FloatScale.
CosPi(p, q) ==
  LET r0 == p % (2 * q)
      r  == IF r0 > q THEN 2 * q - r0 ELSE r0
  IN  IF 2 * r <= q
        THEN CosSeries((PiScaled * r) \div q)
        ELSE 0 - CosSeries((PiScaled * (q - r)) \div q)

lr_lambda_total_progress(t, warmup, total) ==
  IF t < warmup
    THEN (t * FloatScale) \div Max(1, warmup)
    ELSE Max(0, (FloatScale + CosPi(t - warmup, Max(1, total))) \div 2)

\* lr_lambda(current_step) for num_warmup_steps = warmup and
\* num_training_steps = total, with num_cycles = 0.5:
\* pi * num_cycles * 2.0 * progress is pi * progress.
lr_lambda(t, warmup, total) ==
  IF t < warmup
    THEN (t * FloatScale) \div Max(1, warmup)
    ELSE Max(0, (FloatScale + CosPi(t - warmup, Max(1, total - warmup))) \div 2)

\* ----------------------------------------------------------- data loaders
\* len(DataLoader(dataset of n records, batch_size, drop_last)).
DataLoaderLen(n, batch_size, drop_last) ==
  IF drop_last THEN n \div batch_size
               ELSE (n + batch_size - 1) \div batch_size

\* The records (1-based positions in the dataset) of batch i (0-based) of an
\* unshuffled DataLoader.
DataLoaderBatch(n, batch_size, i) ==
  LET lo == i * batch_size + 1
      hi == IF (i + 1) * batch_size <= n THEN (i + 1) * batch_size ELSE n
  IN  [k \in 1..(hi - lo + 1) |-> lo + k - 1]

\* get_dataloader: the 90/10 split.
trainlen(dataset_len) == (9 * dataset_len) \div 10
validlen(dataset_len) == dataset_len - trainlen(dataset_len)

train_loader_len == DataLoaderLen(trainlen(config.dataset_len), config.batch_size, TRUE)
valid_loader_len == DataLoaderLen(validlen(config.dataset_len), config.batch_size, TRUE)

\* ------------------------------------------------------------ model state
ParamVals == 0..MaxParam

model_eval == FALSE

model_train_skipped == FALSE
model_train == TRUE

\* model.state_dict(): the dictionary holds the parameter tensors themselves
\* (references sharing storage with the model), not copies.
state_dict == "model"

\* The tensor values a state dict reference holds now.
tensors_of(ref) == IF ref = "model" THEN params ELSE "None"

\* --------------------------------------------------------------- training
\* Dataset sizes whose 90/10 split gives a training split of 1, 4 and 18 or
\* more records and a held-out split of 1 and 3 records.
DatasetLens == {2, 5, MaxDatasetLen}

Configs ==
  [ total_steps  : 0..MaxTotalSteps,
    valid_steps  : 1..MaxValidSteps,
    save_steps   : 1..MaxSaveSteps,
    warmup_steps : {0, MaxWarmupSteps},
    batch_size   : 1..MaxBatchSize,
    dataset_len  : DatasetLens ]

TrainInit ==
  /\ config \in Configs
  /\ pc = "for_step"
  /\ error = "None"
  /\ step = 0
  /\ train_left = train_loader_len
  /\ n_restarts = 0
  /\ params \in ParamVals
  /\ grads = FALSE
  /\ training = TRUE
  /\ opt_steps = 0
  /\ last_epoch = 0
  /\ lr_factor = lr_lambda(0, config.warmup_steps, config.total_steps)
  /\ best_accuracy = Rat(-1, 1)
  /\ best_state_dict = "None"
  /\ valid_i = 0
  /\ running_accuracy = 0
  /\ evaluated = <<>>
  /\ valid_accuracy = Unbound
  /\ torch_saved = <<>>
  /\ best_snapshot = <<>>
  /\ best_set_at = 0
  /\ max_seen = Rat(-1, 1)
  /\ n_valid = 0
  /\ valid_entry = <<>>

loopVars == <<config, error, n_restarts, train_left>>
optVars == <<params, grads, opt_steps, last_epoch, lr_factor>>
bestVars == <<best_accuracy, best_state_dict, best_snapshot, best_set_at>>
validVars == <<valid_i, running_accuracy, evaluated, valid_accuracy, max_seen,
               n_valid, valid_entry>>

range_has_next_inclusive(i, n) == i <= n
\* `for step in range(total_steps)`: whether the range yields index i.
range_has_next(i, n) == i < n

ForStep ==
  /\ pc = "for_step"
  /\ pc' = IF range_has_next(step, config.total_steps) THEN "next_batch" ELSE "Done"
  /\ UNCHANGED <<step, training, torch_saved>>
  /\ UNCHANGED <<loopVars, optVars, bestVars, validVars>>
  /\ UNCHANGED notTrainVars

\* try: batch = next(train_iterator)
\* except StopIteration: train_iterator = iter(train_loader); batch = next(...)
NextBatch ==
  /\ pc = "next_batch"
  /\ IF train_left > 0
       THEN /\ train_left' = train_left - 1
            /\ pc' = "model_fn"
            /\ UNCHANGED <<n_restarts, error>>
       ELSE /\ n_restarts' = n_restarts + 1
            /\ IF train_loader_len > 0
                 THEN /\ train_left' = train_loader_len - 1
                      /\ pc' = "model_fn"
                      /\ UNCHANGED error
                 ELSE /\ train_left' = 0
                      /\ pc' = "Aborted"
                      /\ error' = "StopIteration"
  /\ UNCHANGED <<config, step, training, torch_saved>>
  /\ UNCHANGED <<optVars, bestVars, validVars>>
  /\ UNCHANGED notTrainVars

\* model_fn(batch, model, device); loss.backward()
ForwardBackward ==
  /\ pc = "model_fn"
  /\ grads' = TRUE
  /\ pc' = "optimizer_step"
  /\ UNCHANGED <<step, training, torch_saved, params, opt_steps, last_epoch, lr_factor>>
  /\ UNCHANGED <<loopVars, bestVars, validVars>>
  /\ UNCHANGED notTrainVars

\* optimizer.step(): the parameter tensors are updated in place.
OptimizerStep ==
  /\ pc = "optimizer_step"
  /\ \E p \in ParamVals : params' = p
  /\ opt_steps' = opt_steps + 1
  /\ pc' = "scheduler_step"
  /\ UNCHANGED <<step, training, torch_saved, grads, last_epoch, lr_factor>>
  /\ UNCHANGED <<loopVars, bestVars, validVars>>
  /\ UNCHANGED notTrainVars

\* scheduler.step(): LambdaLR advances last_epoch and re-evaluates lr_lambda.
SchedulerStep ==
  /\ pc = "scheduler_step"
  /\ last_epoch' = last_epoch + 1
  /\ lr_factor' = lr_lambda(last_epoch + 1, config.warmup_steps, config.total_steps)
  /\ pc' = "zero_grad"
  /\ UNCHANGED <<step, training, torch_saved, params, grads, opt_steps>>
  /\ UNCHANGED <<loopVars, bestVars, validVars>>
  /\ UNCHANGED notTrainVars

valid_due_zero_based(s, valid_steps) == s % valid_steps = 0
\* if (step + 1) % valid_steps == 0
valid_due(s, valid_steps) == (s + 1) % valid_steps = 0

\* optimizer.zero_grad(), then the validation trigger.
ZeroGrad ==
  /\ pc = "zero_grad"
  /\ grads' = FALSE
  /\ pc' = IF valid_due(step, config.valid_steps) THEN "valid" ELSE "save"
  /\ UNCHANGED <<step, training, torch_saved, params, opt_steps, last_epoch, lr_factor>>
  /\ UNCHANGED <<loopVars, bestVars, validVars>>
  /\ UNCHANGED notTrainVars

\* valid(): model.eval(), running_accuracy = 0.0
ValidBegin ==
  /\ pc = "valid"
  /\ training' = model_eval
  /\ running_accuracy' = 0
  /\ valid_i' = 0
  /\ evaluated' = <<>>
  /\ valid_entry' = <<params, grads, opt_steps, last_epoch, lr_factor, step>>
  /\ pc' = "valid_batch"
  /\ UNCHANGED <<step, torch_saved, valid_accuracy, max_seen, n_valid>>
  /\ UNCHANGED <<loopVars, optVars, bestVars>>
  /\ UNCHANGED notTrainVars

\* valid(): one iteration of `for i, batch in enumerate(dataloader)`, under
\* torch.no_grad(); the batch accuracy is correct / batch_size.
ValidBatch ==
  /\ pc = "valid_batch"
  /\ valid_i < valid_loader_len
  /\ \E correct \in 0..config.batch_size :
       running_accuracy' = running_accuracy + correct
  /\ evaluated' = evaluated \o DataLoaderBatch(validlen(config.dataset_len),
                                               config.batch_size, valid_i)
  /\ valid_i' = valid_i + 1
  /\ UNCHANGED <<pc, step, training, torch_saved, valid_accuracy, max_seen,
                 n_valid, valid_entry>>
  /\ UNCHANGED <<loopVars, optVars, bestVars>>
  /\ UNCHANGED notTrainVars

\* valid(): model.train(); return running_accuracy / len(dataloader)
ValidEnd ==
  /\ pc = "valid_batch"
  /\ valid_i = valid_loader_len
  /\ training' = model_train
  /\ IF valid_loader_len = 0
       THEN /\ pc' = "Aborted"
            /\ error' = "ZeroDivisionError"
            /\ UNCHANGED <<valid_accuracy, max_seen, n_valid>>
       ELSE /\ valid_accuracy' = Rat(running_accuracy,
                                     config.batch_size * valid_loader_len)
            /\ max_seen' = RatMax(max_seen, valid_accuracy')
            /\ n_valid' = n_valid + 1
            /\ pc' = "keep_best"
            /\ UNCHANGED error
  /\ UNCHANGED <<config, n_restarts, train_left, step, torch_saved, valid_i,
                 running_accuracy, evaluated, valid_entry>>
  /\ UNCHANGED <<optVars, bestVars>>
  /\ UNCHANGED notTrainVars

is_better_or_equal(a, b) == ~RatLT(a, b)
\* valid_accuracy > best_accuracy
is_better(a, b) == RatLT(b, a)

\* keep the best model
KeepBest ==
  /\ pc = "keep_best"
  /\ IF is_better(valid_accuracy, best_accuracy)
       THEN /\ best_accuracy' = valid_accuracy
            /\ best_state_dict' = state_dict
            /\ best_snapshot' = <<params>>
            /\ best_set_at' = step + 1
       ELSE UNCHANGED bestVars
  /\ pc' = "save"
  /\ UNCHANGED <<step, training, torch_saved>>
  /\ UNCHANGED <<loopVars, optVars, validVars>>
  /\ UNCHANGED notTrainVars

save_due_unguarded(s, save_steps, best) == (s + 1) % save_steps = 0
\* if (step + 1) % save_steps == 0 and best_state_dict is not None
save_due(s, save_steps, best) == (s + 1) % save_steps = 0 /\ best # "None"

SaveEntry(path) ==
  [ path       |-> path,
    step       |-> step + 1,
    state_dict |-> tensors_of(best_state_dict),
    best_ref   |-> best_state_dict,
    snapshot   |-> best_snapshot,
    validated  |-> n_valid ]

\* Save the best model so far, then the loop advances.
SaveBest ==
  /\ pc = "save"
  /\ IF save_due(step, config.save_steps, best_state_dict)
       THEN torch_saved' = torch_saved \o <<SaveEntry("save_path"), SaveEntry("archive")>>
       ELSE UNCHANGED torch_saved
  /\ step' = step + 1
  /\ pc' = "for_step"
  /\ UNCHANGED training
  /\ UNCHANGED <<loopVars, optVars, bestVars, validVars>>
  /\ UNCHANGED notTrainVars

TrainNext ==
  \/ ForStep
  \/ NextBatch
  \/ ForwardBackward
  \/ OptimizerStep
  \/ SchedulerStep
  \/ ZeroGrad
  \/ ValidBegin
  \/ ValidBatch
  \/ ValidEnd
  \/ KeepBest
  \/ SaveBest

\* ------------------------------------------- learning-rate schedule alone
MaxRateWarmup == 4
MaxRateTotal == 6

\* LambdaLR(optimizer, lr_lambda, last_epoch=-1): construction performs the
\* initial step, which leaves last_epoch = 0 and the rate lr_lambda(0).
RateInit ==
  /\ num_warmup_steps \in 0..MaxRateWarmup
  /\ num_training_steps \in 0..MaxRateTotal
  /\ current_step = 0
  /\ rate = lr_lambda(0, num_warmup_steps, num_training_steps)

\* scheduler.step(), called once per training step, total_steps times.
LambdaLRStep ==
  /\ current_step < num_training_steps
  /\ current_step' = current_step + 1
  /\ rate' = lr_lambda(current_step + 1, num_warmup_steps, num_training_steps)
  /\ UNCHANGED <<num_warmup_steps, num_training_steps>>
  /\ UNCHANGED <<trainVars, collateVars, inferVars, getitemVars>>

\* ------------------------------------------------------------ collate_batch
MaxCollate == 2
MaxMelLen == 2
N_MELS == 40
padding_value == -20

\* A frame: N_MELS mel bins.  The frames drawn as inputs hold one value in
\* every bin.
Frame(v) == [m \in 1..N_MELS |-> v]
FrameVals == {padding_value, 7}
LabelVals == {0, 1, 599}

RECURSIVE SeqsUpTo(_, _)
\* The sequences over S of length 1..n.
SeqsUpTo(S, n) ==
  IF n = 0 THEN {}
  ELSE SeqsUpTo(S, n - 1) \cup [1..n -> S]

Mels == SeqsUpTo({Frame(v) : v \in FrameVals}, MaxMelLen)
Items == [mel : Mels, speaker : LabelVals]

RECURSIVE Float32Quantum(_)
\* Spacing of the float32 values around the integer n >= 0.
Float32Quantum(n) == IF n < 2^24 THEN 1 ELSE 2 * Float32Quantum(n \div 2)

\* torch.FloatTensor(x).long() of an integer x >= 0: rounded to the nearest
\* float32 (ties to even), then truncated back to an integer.
FloatTensor_long(n) ==
  LET q == Float32Quantum(n)
      r == n % q
      lo == n - r
  IN  IF 2 * r < q THEN lo
      ELSE IF 2 * r > q THEN lo + q
      ELSE IF (lo \div q) % 2 = 0 THEN lo ELSE lo + q

RECURSIVE MaxLen(_)
MaxLen(seqs) ==
  IF Len(seqs) = 0 THEN 0 ELSE Max(Len(Head(seqs)), MaxLen(Tail(seqs)))

RECURSIVE MinLen(_)
MinLen(seqs) ==
  IF Len(seqs) = 1 THEN Len(Head(seqs))
  ELSE LET m == MinLen(Tail(seqs))
       IN  IF Len(Head(seqs)) <= m THEN Len(Head(seqs)) ELSE m

pad_sequence_truncating(seqs, value) ==
  [i \in 1..Len(seqs) |-> [t \in 1..MinLen(seqs) |-> seqs[i][t]]]
\* pad_sequence(seqs, batch_first=True, padding_value=value)
pad_sequence(seqs, value) ==
  [i \in 1..Len(seqs) |->
     [t \in 1..MaxLen(seqs) |->
        IF t <= Len(seqs[i]) THEN seqs[i][t] ELSE Frame(value)]]

\* collate_batch(batch) for a non-empty batch.
collate_batch(b) ==
  [ status  |-> "returned",
    mel     |-> pad_sequence([i \in 1..Len(b) |-> b[i].mel], padding_value),
    speaker |-> [i \in 1..Len(b) |-> FloatTensor_long(b[i].speaker)] ]

CollateInit ==
  /\ batch \in {<<>>} \cup SeqsUpTo(Items, MaxCollate)
  /\ collated = [status |-> "pending"]

\* collate_batch(batch); `mel, speaker = zip(*batch)` raises ValueError on an
\* empty list.
CollateBatch ==
  /\ collated.status = "pending"
  /\ collated' = IF Len(batch) = 0 THEN [status |-> "ValueError"]
                                   ELSE collate_batch(batch)
  /\ UNCHANGED batch
  /\ UNCHANGED <<trainVars, rateVars, inferVars, getitemVars>>

\* ----------------------------------------------------------------- inference
MaxUtterances == 2
MaxSpeakers == 11
inference_batch_size == 1

FeatPaths == {"featA.pt", "featB.pt"}
\* The arg-max of the logits: any class id the head can output.
PredIds == 0..MaxSpeakers

Digits == <<"0", "1", "2", "3", "4", "5", "6", "7", "8", "9">>

RECURSIVE str(_)
\* str(pred): the decimal digits of an integer >= 0.
str(n) ==
  IF n < 10 THEN <<Digits[n + 1]>>
  ELSE str(n \div 10) \o <<Digits[(n % 10) + 1]>>

\* The speaker name mapping.json gives speaker id i.
SpeakerName(i) == <<"id", 10001 + i>>

\* mapping["id2speaker"] for speaker_num speakers: keyed by the decimal string
\* of the id.
Id2Speaker(speaker_num) ==
  [k \in {str(i) : i \in 0..(speaker_num - 1)} |->
     SpeakerName(CHOOSE i \in 0..(speaker_num - 1) : str(i) = k)]

InferInit ==
  /\ testdata \in {<<>>} \cup SeqsUpTo(FeatPaths, MaxUtterances)
  /\ \E speaker_num \in 1..MaxSpeakers : id2speaker = Id2Speaker(speaker_num)
  /\ infer_pc = "loop"
  /\ infer_error = "None"
  /\ infer_i = 0
  /\ infer_preds = <<>>
  /\ results = << <<"Id", "Category">> >>
  /\ output_csv = <<>>

infer_loader_len == DataLoaderLen(Len(testdata), inference_batch_size, FALSE)

\* InferenceDataset.__getitem__ and inference_collate_batch: the feature paths
\* of the records of one batch, in order.
feat_paths_of(indices) == [k \in 1..Len(indices) |-> testdata[indices[k]]]

\* Number of leading predictions whose key mapping["id2speaker"] holds.
RECURSIVE KnownPrefix(_)
KnownPrefix(preds) ==
  IF Len(preds) = 0 \/ str(Head(preds)) \notin DOMAIN id2speaker THEN 0
  ELSE 1 + KnownPrefix(Tail(preds))

category_shifted(pred) == id2speaker[str((pred + 1) % Cardinality(DOMAIN id2speaker))]
\* mapping["id2speaker"][str(pred)]
category(pred) == id2speaker[str(pred)]

\* One iteration of `for feat_paths, mels in tqdm(dataloader)`.
InferBatch ==
  /\ infer_pc = "loop"
  /\ infer_i < infer_loader_len
  /\ LET indices == DataLoaderBatch(Len(testdata), inference_batch_size, infer_i)
         feat_paths == feat_paths_of(indices)
     IN  \E preds \in [1..Len(indices) -> PredIds] :
           LET known == KnownPrefix(preds)
           IN  /\ results' = results \o
                     [k \in 1..known |-> <<feat_paths[k], category(preds[k])>>]
               /\ infer_preds' = infer_preds \o [k \in 1..known |-> preds[k]]
               /\ IF known = Len(indices)
                    THEN /\ infer_i' = infer_i + 1
                         /\ UNCHANGED <<infer_pc, infer_error>>
                    ELSE /\ infer_pc' = "Aborted"
                         /\ infer_error' = "KeyError"
                         /\ UNCHANGED infer_i
  /\ UNCHANGED <<testdata, id2speaker, output_csv>>
  /\ UNCHANGED <<trainVars, rateVars, collateVars, getitemVars>>

\* csv.writer(csvfile).writerows(results)
WriteCsv ==
  /\ infer_pc = "loop"
  /\ infer_i = infer_loader_len
  /\ output_csv' = results
  /\ infer_pc' = "Done"
  /\ UNCHANGED <<testdata, id2speaker, infer_error, infer_i, infer_preds, results>>
  /\ UNCHANGED <<trainVars, rateVars, collateVars, getitemVars>>

\* ------------------------------------------------------ myDataset.__getitem__
MaxUtteranceLen == 4
MaxSegmentLen == 3

\* torch.load(feat_path): a mel of 1..MaxUtteranceLen frames.
Utterances == SeqsUpTo({Frame(v) : v \in FrameVals}, MaxUtteranceLen)

randint_exclusive(a, b) == a..(b - 1)
\* random.randint(a, b): the values it can return, both ends included.
randint(a, b) == a..b

\* seq[lo:hi] of Python (0-based, hi excluded, cut at the end of seq), for
\* 0 <= lo <= hi.
Slice(seq, lo, hi) ==
  LET stop == IF hi <= Len(seq) THEN hi ELSE Len(seq)
  IN  [t \in 1..(IF stop >= lo THEN stop - lo ELSE 0) |-> seq[lo + t]]

GetItemInit ==
  /\ segment_len \in 1..MaxSegmentLen
  /\ record \in [mel : Utterances, speaker : LabelVals]
  /\ item = [status |-> "pending"]

\* myDataset.__getitem__(index)
GetItem ==
  /\ item.status = "pending"
  /\ IF Len(record.mel) > segment_len
       THEN \E start \in randint(0, Len(record.mel) - segment_len) :
              item' = [ status  |-> "returned",
                        start   |-> <<start>>,
                        mel     |-> Slice(record.mel, start, start + segment_len),
                        speaker |-> FloatTensor_long(record.speaker) ]
       ELSE item' = [ status  |-> "returned",
                      start   |-> <<>>,
                      mel     |-> record.mel,
                      speaker |-> FloatTensor_long(record.speaker) ]
  /\ UNCHANGED <<segment_len, record>>
  /\ UNCHANGED <<trainVars, rateVars, collateVars, inferVars>>

\* ------------------------------------------------------------ specifications
\* A subsystem that a specification does not run.
TrainIdle ==
  /\ config = "idle" /\ pc = "idle" /\ error = "None" /\ step = 0
  /\ train_left = 0 /\ n_restarts = 0 /\ params = 0 /\ grads = FALSE
  /\ training = TRUE /\ opt_steps = 0 /\ last_epoch = 0 /\ lr_factor = 0
  /\ best_accuracy = Rat(-1, 1) /\ best_state_dict = "None" /\ valid_i = 0
  /\ running_accuracy = 0 /\ evaluated = <<>> /\ valid_accuracy = Unbound
  /\ torch_saved = <<>> /\ best_snapshot = <<>> /\ best_set_at = 0
  /\ max_seen = Rat(-1, 1) /\ n_valid = 0 /\ valid_entry = <<>>
RateIdle ==
  /\ num_warmup_steps = 0 /\ num_training_steps = 0 /\ current_step = 0
  /\ rate = 0
CollateIdle == batch = <<>> /\ collated = [status |-> "idle"]
GetItemIdle ==
  /\ segment_len = 0 /\ record = [status |-> "idle"] /\ item = [status |-> "idle"]
InferIdle ==
  /\ testdata = <<>> /\ id2speaker = <<>> /\ infer_pc = "idle"
  /\ infer_error = "None" /\ infer_i = 0 /\ infer_preds = <<>>
  /\ results = <<>> /\ output_csv = <<>>

\* The training run.
Init == TrainInit /\ RateIdle /\ CollateIdle /\ InferIdle /\ GetItemIdle
Next == TrainNext
Spec == Init /\ [][Next]_vars
\* The loop is one sequential control flow: whenever a statement can run, it
\* eventually does.
FairSpec == Init /\ [][Next]_vars /\ WF_vars(Next)

\* The learning-rate schedule stepped through a run of num_training_steps.
RateSpecInit == RateInit /\ TrainIdle /\ CollateIdle /\ InferIdle /\ GetItemIdle
RateNext == LambdaLRStep
RateSpec == RateSpecInit /\ [][RateNext]_vars

\* collate_batch applied to a batch.
CollateSpecInit == CollateInit /\ TrainIdle /\ RateIdle /\ InferIdle /\ GetItemIdle
CollateNext == CollateBatch
CollateSpec == CollateSpecInit /\ [][CollateNext]_vars

\* The inference run.
InferSpecInit == InferInit /\ TrainIdle /\ RateIdle /\ CollateIdle /\ GetItemIdle
InferNext == InferBatch \/ WriteCsv
InferSpec == InferSpecInit /\ [][InferNext]_vars

\* __getitem__ applied to one record.
GetItemSpecInit == GetItemInit /\ TrainIdle /\ RateIdle /\ CollateIdle /\ InferIdle
GetItemNext == GetItem
GetItemSpec == GetItemSpecInit /\ [][GetItemNext]_vars

\* ------------------------------------------------------------------ claims
RunningPcs == {"for_step", "next_batch", "model_fn", "optimizer_step",
               "scheduler_step", "zero_grad", "keep_best", "save"}

\* C1: the in-memory best checkpoint is a snapshot: it keeps the parameter
\* values of the validation event that assigned it whatever optimizer steps
\* follow, and every checkpoint persisted holds those values.
C1_BestCheckpointIsSnapshot ==
  /\ best_state_dict # "None" => <<tensors_of(best_state_dict)>> = best_snapshot
  /\ \A k \in 1..Len(torch_saved) :
       <<torch_saved[k].state_dict>> = torch_saved[k].snapshot

\* C2: the best accuracy never decreases; outside the hand-over from valid
\* to the comparison it equals the greatest validation accuracy returned so
\* far; and the best checkpoint is replaced only by a strictly greater
\* validation accuracy.
C2_BestAccuracyMonotone ==
  /\ [][~RatLT(best_accuracy', best_accuracy)]_vars
  /\ [][best_set_at' # best_set_at
          => (pc = "keep_best" /\ RatLT(best_accuracy, valid_accuracy)
              /\ best_accuracy' = valid_accuracy)]_vars
  /\ [](pc # "keep_best" => RatEQ(best_accuracy, max_seen))

C2_Witness ==
  /\ pc = "save"
  /\ n_valid >= 3
  /\ best_set_at = 2
  /\ step + 1 > best_set_at

\* C3: every draw of the training loop returns a batch: StopIteration never
\* reaches the training loop.
C3_NoEndOfStream == error # "StopIteration"

\* C4: the run ends (Done, or aborted by an exception); it is Done after
\* exactly total_steps steps, each with one optimizer step, then one
\* scheduler step, then a gradient clear; and nothing follows Done.
C4_RunTerminates ==
  /\ <>(pc \in {"Done", "Aborted"})
  /\ [](pc = "Done" => /\ step = config.total_steps
                       /\ opt_steps = config.total_steps
                       /\ last_epoch = config.total_steps
                       /\ grads = FALSE)
  /\ [](pc \in {"for_step", "next_batch", "model_fn", "optimizer_step"}
          => opt_steps = step /\ last_epoch = step)
  /\ [](pc = "scheduler_step" => opt_steps = step + 1 /\ last_epoch = step)
  /\ [](pc \in {"zero_grad", "valid", "valid_batch", "keep_best", "save"}
          => opt_steps = step + 1 /\ last_epoch = step + 1)
  /\ [](pc \in {"optimizer_step", "scheduler_step", "zero_grad"} <=> grads)
  /\ [][pc # "Done"]_vars

C4_Witness ==
  /\ pc = "Done"
  /\ opt_steps >= 3
  /\ n_valid >= 1
  /\ n_restarts >= 1

\* C5: torch.save is called exactly when the step count is a multiple of
\* save_steps and a best checkpoint exists; each time the same best checkpoint
\* goes to the rolling path and to the archive path of that step, after the
\* validation due at that step.
C5_SaveTrigger ==
  /\ [][torch_saved' # torch_saved
          <=> (pc = "save" /\ (step + 1) % config.save_steps = 0
               /\ best_state_dict # "None")]_vars
  /\ [](\A k \in 1..Len(torch_saved) :
          /\ torch_saved[k].step % config.save_steps = 0
          /\ torch_saved[k].best_ref # "None"
          /\ torch_saved[k].validated = torch_saved[k].step \div config.valid_steps
          /\ torch_saved[k].validated >= 1
          /\ k % 2 = 1 => /\ k + 1 <= Len(torch_saved)
                          /\ torch_saved[k].path = "save_path"
                          /\ torch_saved[k + 1].path = "archive"
                          /\ torch_saved[k + 1].step = torch_saved[k].step
                          /\ torch_saved[k + 1].state_dict = torch_saved[k].state_dict
                          /\ torch_saved[k + 1].best_ref = torch_saved[k].best_ref)

C5_Witness ==
  /\ config.save_steps = 1
  /\ config.valid_steps = 2
  /\ Len(torch_saved) = 4
  /\ torch_saved[1].step = 2
  /\ torch_saved[3].step = 3

\* C6: a validation pass evaluates every held-out record exactly once, in
\* order, and returns the mean of the batch accuracies, for every held-out
\* split size and batch_size.
C6_ValidationCoversHeldOut ==
  /\ error # "ZeroDivisionError"
  /\ pc = "keep_best"
       => /\ evaluated = [k \in 1..validlen(config.dataset_len) |-> k]
          /\ valid_accuracy = Rat(running_accuracy, config.batch_size * valid_i)

\* C7: a validation pass changes neither the parameters, the gradients, the
\* optimizer and scheduler state nor the step counter, and the model is in
\* training mode when it returns and at every statement of the training step.
C7_ValidationLeavesTrainingState ==
  /\ [][(pc \in {"valid", "valid_batch"})
          => UNCHANGED <<params, grads, opt_steps, last_epoch, lr_factor, step,
                         best_state_dict, best_accuracy, train_left>>]_vars
  /\ [](pc = "keep_best"
          => /\ training = TRUE
             /\ valid_entry = <<params, grads, opt_steps, last_epoch, lr_factor, step>>)
  /\ [](pc \in RunningPcs => training = TRUE)
  /\ [](error = "ZeroDivisionError" => training = TRUE)

C7_Witness ==
  /\ pc = "keep_best"
  /\ n_valid >= 2
  /\ Len(evaluated) >= 2
  /\ opt_steps >= 2

\* C8: the table written has the header row, then one row per utterance of
\* the inference set in its order: the utterance's feature path and the
\* speaker name of the arg-max id.
C8_ResultsTable ==
  /\ \A k \in 1..Len(infer_preds) :
       /\ results[k + 1][1] = testdata[k]
       /\ results[k + 1][2] = SpeakerName(infer_preds[k])
  /\ infer_pc \in {"loop", "Done", "Aborted"}
       => /\ results[1] = <<"Id", "Category">>
          /\ Len(results) = Len(infer_preds) + 1
  /\ infer_pc = "Done"
       => /\ output_csv = results
          /\ Len(output_csv) = Len(testdata) + 1

C8_Witness ==
  /\ infer_pc = "Done"
  /\ Len(testdata) = 2
  /\ testdata[1] # testdata[2]
  /\ infer_preds[1] = 10
  /\ infer_preds[2] = 0

\* C9 as stated: for every warmup_steps and total_steps, rate(0) = 0,
\* rate(warmup_steps) = 1, rate(total_steps) = 0 and rate >= 0 on
\* [0, total_steps].
C9_RateEveryConfiguration ==
  /\ rate >= 0
  /\ current_step = 0 => rate = 0
  /\ current_step = num_warmup_steps => rate = FloatScale
  /\ current_step = num_training_steps => rate = 0

\* C9 amended: 0 <= rate <= 1 on [0, total_steps] and rate(warmup_steps) = 1
\* for every configuration; rate(0) = 0 when warmup_steps >= 1;
\* rate(total_steps) = 0 when total_steps > warmup_steps; the rate is
\* t / warmup_steps during warmup and the half-cosine afterwards (1/2 at the
\* middle of the decay).
C9_RateProperWarmupAndDecay ==
  /\ rate >= 0 /\ rate <= FloatScale
  /\ current_step = num_warmup_steps => rate = FloatScale
  /\ current_step = 0 /\ num_warmup_steps >= 1 => rate = 0
  /\ current_step = num_training_steps /\ num_training_steps > num_warmup_steps
       => rate = 0
  /\ current_step < num_warmup_steps
       => rate = (current_step * FloatScale) \div num_warmup_steps
  /\ (current_step >= num_warmup_steps
      /\ num_training_steps > num_warmup_steps
      /\ 2 * (current_step - num_warmup_steps)
           = num_training_steps - num_warmup_steps)
       => rate = FloatScale \div 2

C9_Witness ==
  /\ num_warmup_steps = 2
  /\ num_training_steps = 6
  /\ current_step = num_training_steps
  /\ current_step > num_warmup_steps
  /\ rate = 0

\* C10: collate_batch of n >= 1 pairs returns n sequences of the greatest
\* input length; each keeps its own frames and is filled with frames of -20
\* beyond them; the labels are the input labels in input order.
C10_CollatePads ==
  collated.status = "returned" =>
    /\ Len(batch) >= 1
    /\ Len(collated.mel) = Len(batch)
    /\ Len(collated.speaker) = Len(batch)
    /\ \E j \in 1..Len(batch) :
         \A i \in 1..Len(batch) : Len(collated.mel[i]) = Len(batch[j].mel)
    /\ \A i \in 1..Len(batch) :
         /\ Len(collated.mel[i]) >= Len(batch[i].mel)
         /\ \A t \in 1..Len(batch[i].mel) : collated.mel[i][t] = batch[i].mel[t]
         /\ \A t \in (Len(batch[i].mel) + 1)..Len(collated.mel[i]) :
              \A m \in 1..40 : collated.mel[i][t][m] = -20
         /\ collated.speaker[i] = batch[i].speaker

C10_Witness ==
  /\ collated.status = "returned"
  /\ Len(batch) = 2
  /\ Len(batch[1].mel) = 2
  /\ Len(batch[2].mel) = 1
  /\ batch[1].mel[2][1] # -20
  /\ batch[2].speaker = 599
  /\ collated.mel[2][2][40] = -20

\* C11: __getitem__ returns min(L, S) frames: for L > S the slice
\* [start, start + S) of the utterance for a start in [0, L - S], every such
\* start being a possible outcome; for L <= S the whole utterance; and the
\* record's speaker id as label.
C11_SegmentSampler ==
  LET L == Len(record.mel)
      S == segment_len
  IN  /\ item.status = "pending" /\ L > S
          => \A s \in 0..(L - S) : ENABLED (GetItem /\ item'.start = <<s>>)
      /\ item.status = "returned"
          => /\ Len(item.mel) = (IF L <= S THEN L ELSE S)
             /\ item.speaker = record.speaker
             /\ L <= S => item.mel = record.mel /\ item.start = <<>>
             /\ L > S => /\ Len(item.start) = 1
                         /\ item.start[1] >= 0
                         /\ item.start[1] <= L - S
                         /\ \A t \in 1..S : item.mel[t] = record.mel[item.start[1] + t]

C11_Witness ==
  /\ item.status = "returned"
  /\ Len(record.mel) = 4
  /\ segment_len = 2
  /\ item.start = <<2>>
  /\ record.mel[3] # record.mel[1]
  /\ item.mel[1] = record.mel[3]
  /\ record.speaker = 599

\* C12: a validation pass starts exactly after the training steps with
\* (step + 1) % valid_steps = 0, once that step's optimizer and scheduler
\* updates are done and before anything is saved for that step; a run that
\* completes total_steps steps holds total_steps \div valid_steps passes.
C12_ValidationTrigger ==
  /\ [][(pc = "zero_grad")
          => (pc' = "valid" <=> (step + 1) % config.valid_steps = 0)]_vars
  /\ [][(pc' = "valid") => pc = "zero_grad"]_vars
  /\ [](pc \in {"valid", "valid_batch"}
          => /\ (step + 1) % config.valid_steps = 0
             /\ opt_steps = step + 1
             /\ last_epoch = step + 1
             /\ n_valid = step \div config.valid_steps
             /\ \A k \in 1..Len(torch_saved) : torch_saved[k].step <= step)
  /\ [](pc \in {"for_step", "next_batch", "model_fn", "optimizer_step",
                "scheduler_step", "zero_grad", "Done"}
          => n_valid = step \div config.valid_steps)
  /\ [](pc = "save" => n_valid = (step + 1) \div config.valid_steps)
  /\ [](pc = "Done" => n_valid = config.total_steps \div config.valid_steps)

C12_Witness ==
  /\ pc = "Done"
  /\ config.valid_steps = 2
  /\ config.save_steps = 2
  /\ config.total_steps = 3
  /\ n_valid = 1
  /\ Len(torch_saved) = 2

====
